---- MODULE Spec2Model ----
(***************************************************************************)
(* Model of cashu/lightning/nwc.py: the NWCWallet lightning backend.       *)
(*                                                                         *)
(* The adapter holds no mutable state of its own (only its unit and the    *)
(* client handle), so one state of the model is one completed call of one  *)
(* operation: the behaviour of the collaborators during that call (env),   *)
(* the collaborator calls the operation made, in order (calls), and what   *)
(* the operation returned or raised (result).  Calls are independent of    *)
(* each other, so they are observed one at a time: an operation starts     *)
(* from the idle state and the caller then takes its result.               *)
(***************************************************************************)
EXTENDS Integers, Sequences, FiniteSets, TLC

VARIABLES unit, op, env, calls, result

vars == <<unit, op, env, calls, result>>

\* ---------------------------------------------------------------- bounds
MaxSat == 2

\* millisatoshi values, whole and fractional satoshis
MsatValues == {0, 1} \cup {500 * k : k \in 1..(2 * MaxSat)}

\* ------------------------------------------------------------ value sets
None == "None"

supported_units == {"sat", "usd"}

RequestUnits == {"sat", "msat"}

Outcomes == {"ok", "Nip47Error", "Exception"}

FxOutcomes == {"ok", "Exception"}

AllMethods ==
    {"get_info", "get_balance", "make_invoice", "pay_invoice",
     "lookup_invoice", "list_transactions"}

Hashes == {"h1", "h2"}

Bolt11s == {"lnbc1", "lnbc2"}

PayPreimages == {"p1", "p2"}

LookupPreimages == {None, "", "p1"}

required_nip47_methods ==
    <<"get_info", "get_balance", "make_invoice", "pay_invoice", "lookup_invoice">>

\* ------------------------------------------------------------- arithmetic
CeilDiv(a, b) == (a + b - 1) \div b

\* ---------------------------------------------------- the rate provider
\* satoshis per smallest denomination of a unit
SatsPerUsd == 2

SatsPer(u) == IF u = "sat" THEN 1 ELSE SatsPerUsd

from_sats(sats, u) == CeilDiv(sats, SatsPer(u))

to_sats(amt, u) == amt * SatsPer(u)

\* --------------------------------------------------- calls and outcomes
Call(fn, sarg, narg, out) == [fn |-> fn, sarg |-> sarg, narg |-> narg, out |-> out]

Return(ret, cs) == [exc |-> None, ret |-> ret, calls |-> cs]

Raise(exc, cs) == [exc |-> exc, ret |-> [raised |-> exc], calls |-> cs]

Amount(u, a) == [unit |-> u, amount |-> a]

NoAmount == [unit |-> None, amount |-> 0]

\* Amount.to(to_unit, round) between the lightning units
amount_to(a, to_unit, round) ==
    IF a.unit = to_unit THEN a
    ELSE IF a.unit = "sat" /\ to_unit = "msat" THEN Amount("msat", a.amount * 1000)
    ELSE IF a.unit = "msat" /\ to_unit = "sat"
    THEN Amount("sat", IF round = "up" THEN CeilDiv(a.amount, 1000)
                                       ELSE a.amount \div 1000)
    ELSE a

\* ----------------------------------------------------------------- status
StatusResponse(err, bal) == [raised |-> None, error_message |-> err, balance |-> bal]

supports_required_any(methods) ==
    \E i \in 1..Len(required_nip47_methods) : required_nip47_methods[i] \in methods

supports_required(methods) ==
    \A i \in 1..Len(required_nip47_methods) : required_nip47_methods[i] \in methods

status_try(u, e) ==
    LET c1 == <<Call("get_info", None, 0, e.info_out)>> IN
    IF e.info_out # "ok" THEN Raise(e.info_out, c1)
    ELSE IF ~supports_required(e.methods)
    THEN Return(StatusResponse("NWC does not support all required methods", 0), c1)
    ELSE
      LET c2 == Append(c1, Call("get_balance", None, 0, e.bal_out)) IN
      IF e.bal_out # "ok" THEN Raise(e.bal_out, c2)
      ELSE
        LET c3 == Append(c2, Call("from_sats", u, e.balance \div 1000, e.fx_out)) IN
        IF e.fx_out # "ok" THEN Raise(e.fx_out, c3)
        ELSE Return(StatusResponse(None, from_sats(e.balance \div 1000, u)), c3)

status_except_only_nip47(r) ==
    IF r.exc = "Nip47Error"
    THEN Return(StatusResponse("Nip47Error", 0), r.calls)
    ELSE r

status_except(r) ==
    IF r.exc = None THEN r
    ELSE IF r.exc = "Nip47Error"
    THEN Return(StatusResponse("Nip47Error", 0), r.calls)
    ELSE Return(StatusResponse("Failed to connect to lightning wallet via NWC", 0), r.calls)

StatusEnvs ==
    [info_out : Outcomes, methods : SUBSET AllMethods, bal_out : Outcomes,
     balance : MsatValues, fx_out : FxOutcomes]

status ==
    /\ op = "idle"
    /\ \E e \in StatusEnvs :
         LET r == status_except(status_try(unit, e)) IN
           /\ op' = "status"
           /\ env' = e
           /\ calls' = r.calls
           /\ result' = r.ret
           /\ UNCHANGED unit

\* --------------------------------------------------------- create_invoice
InvoiceResponse(ok, cid, pr, err) ==
    [raised |-> None, ok |-> ok, checking_id |-> cid, payment_request |-> pr,
     error_message |-> err]

make_invoice_amount_sat(amount_sat) == amount_sat

make_invoice_amount(amount_sat) == amount_sat * 1000

create_invoice_try(u, e) ==
    LET c1 == <<Call("to_sats", u, e.amount, e.fx_out)>> IN
    IF e.fx_out # "ok" THEN Raise(e.fx_out, c1)
    ELSE
      LET amount_sat == to_sats(e.amount, u)
          c2 == Append(c1, Call("create_invoice", None,
                                make_invoice_amount(amount_sat), e.make_out))
      IN
      IF e.make_out # "ok" THEN Raise(e.make_out, c2)
      ELSE Return(InvoiceResponse(TRUE, e.payment_hash, e.invoice, None), c2)

create_invoice_except(r) ==
    IF r.exc = None THEN r
    ELSE IF r.exc = "Nip47Error"
    THEN Return(InvoiceResponse(FALSE, None, None, "Nip47Error"), r.calls)
    ELSE Return(InvoiceResponse(FALSE, None, None, "Failed to create invoice"), r.calls)

CreateInvoiceEnvs ==
    [amount : 0..(2 * MaxSat), fx_out : FxOutcomes, make_out : Outcomes,
     payment_hash : Hashes, invoice : Bolt11s]

create_invoice ==
    /\ op = "idle"
    /\ \E e \in CreateInvoiceEnvs :
         LET r == create_invoice_except(create_invoice_try(unit, e)) IN
           /\ op' = "create_invoice"
           /\ env' = e
           /\ calls' = r.calls
           /\ result' = r.ret
           /\ UNCHANGED unit

\* ------------------------------------------------------------ pay_invoice
PaymentResponse(ok, cid, fee, preimage, err) ==
    [raised |-> None, ok |-> ok, checking_id |-> cid, fee |-> fee,
     preimage |-> preimage, error_message |-> err]

fees_paid_to_sat_unscaled(fees_paid) == fees_paid

fees_paid_to_sat(fees_paid) == fees_paid \div 1000

\* the inner try/except around the fee lookup: [fees, calls]
lookup_fees_retry(e, cs) ==
    LET c2 == Append(cs, Call("lookup_invoice", e.checking_id, 0, e.lookup_out)) IN
    IF e.lookup_out = "ok"
    THEN [fees |-> fees_paid_to_sat(e.fees_paid), calls |-> c2]
    ELSE [fees |-> 0,
          calls |-> Append(c2, Call("lookup_invoice", e.checking_id, 0, e.lookup_out))]

lookup_fees(e, cs) ==
    LET c2 == Append(cs, Call("lookup_invoice", e.checking_id, 0, e.lookup_out)) IN
    IF e.lookup_out = "ok"
    THEN [fees |-> fees_paid_to_sat(e.fees_paid), calls |-> c2]
    ELSE [fees |-> 0, calls |-> c2]

pay_invoice_try(u, e) ==
    LET c1 == <<Call("pay_invoice", e.request, 0, e.pay_out)>> IN
    IF e.pay_out # "ok" THEN Raise(e.pay_out, c1)
    ELSE
      LET l == lookup_fees(e, c1) IN
      IF l.fees > 0
      THEN
        LET c3 == Append(l.calls, Call("from_sats", u, l.fees, e.fx_out)) IN
        IF e.fx_out # "ok" THEN Raise(e.fx_out, c3)
        ELSE Return(PaymentResponse(TRUE, None, Amount(u, from_sats(l.fees, u)),
                                    e.pay_preimage, None), c3)
      ELSE Return(PaymentResponse(TRUE, None, Amount(u, l.fees),
                                  e.pay_preimage, None), l.calls)

pay_invoice_except(r) ==
    IF r.exc = None THEN r
    ELSE IF r.exc = "Nip47Error"
    THEN Return(PaymentResponse(FALSE, None, NoAmount, None, "Nip47Error"), r.calls)
    ELSE Return(PaymentResponse(FALSE, None, NoAmount, None, "Failed to pay invoice"),
                r.calls)

PayInvoiceEnvs ==
    [request : Bolt11s, checking_id : Hashes, pay_out : Outcomes,
     pay_preimage : PayPreimages, lookup_out : Outcomes,
     fees_paid : MsatValues, fx_out : FxOutcomes]

pay_invoice ==
    /\ op = "idle"
    /\ \E e \in PayInvoiceEnvs :
         LET r == pay_invoice_except(pay_invoice_try(unit, e)) IN
           /\ op' = "pay_invoice"
           /\ env' = e
           /\ calls' = r.calls
           /\ result' = r.ret
           /\ UNCHANGED unit

\* ------------------------------------- get_invoice_status / get_payment_status
PaymentStatus(paid) == [raised |-> None, paid |-> paid]

LookupEnvs ==
    [checking_id : Hashes, lookup_out : Outcomes, preimage : LookupPreimages]

get_invoice_status_run(e) ==
    LET c1 == <<Call("lookup_invoice", e.checking_id, 0, e.lookup_out)>> IN
    IF e.lookup_out = "ok"
    THEN Return(PaymentStatus(e.preimage # None /\ e.preimage # ""), c1)
    ELSE Return(PaymentStatus(FALSE), c1)

get_payment_status_run_not_none(e) ==
    LET c1 == <<Call("lookup_invoice", e.checking_id, 0, e.lookup_out)>> IN
    IF e.lookup_out = "ok"
    THEN Return(PaymentStatus(e.preimage # None), c1)
    ELSE Return(PaymentStatus(FALSE), c1)

get_payment_status_run(e) ==
    LET c1 == <<Call("lookup_invoice", e.checking_id, 0, e.lookup_out)>> IN
    IF e.lookup_out = "ok"
    THEN Return(PaymentStatus(e.preimage # None /\ e.preimage # ""), c1)
    ELSE Return(PaymentStatus(FALSE), c1)

get_invoice_status ==
    /\ op = "idle"
    /\ \E e \in LookupEnvs :
         LET r == get_invoice_status_run(e) IN
           /\ op' = "get_invoice_status"
           /\ env' = e
           /\ calls' = r.calls
           /\ result' = r.ret
           /\ UNCHANGED unit

get_payment_status ==
    /\ op = "idle"
    /\ \E e \in LookupEnvs :
         LET r == get_payment_status_run(e) IN
           /\ op' = "get_payment_status"
           /\ env' = e
           /\ calls' = r.calls
           /\ result' = r.ret
           /\ UNCHANGED unit

\* ------------------------------------------------------ get_payment_quote
PaymentQuoteResponse(cid, fee, amount) ==
    [raised |-> None, checking_id |-> cid, fee |-> fee, amount |-> amount]

QuoteEnvs ==
    [is_mpp : BOOLEAN, mpp_unit : RequestUnits, mpp_amount : 0..(2 * MaxSat),
     conv_out : FxOutcomes, decode_out : FxOutcomes, has_amount : BOOLEAN,
     amount_msat : MsatValues, payment_hash : Hashes,
     fee_reserve_ret : MsatValues, fx_amount_out : FxOutcomes,
     fx_fee_out : FxOutcomes]

\* truth value of invoice_obj.amount_msat
invoice_has_amount(e) == e.has_amount /\ e.amount_msat # 0

quote_use_mpp_never(e) == FALSE

\* truth value of the local `amount` at the `if amount:` test
quote_use_mpp(e) == e.is_mpp

quote_assert_skipped(e) == TRUE

quote_assert(e) == invoice_has_amount(e)

\* the tail of get_payment_quote, from fee_reserve on
quote_convert(u, e, amount_msat, cs) ==
    LET fees_msat == e.fee_reserve_ret
        c1 == Append(cs, Call("fee_reserve", None, amount_msat, "ok"))
        c2 == Append(c1, Call("from_sats", u, amount_msat \div 1000, e.fx_amount_out))
    IN
    IF e.fx_amount_out # "ok" THEN Raise(e.fx_amount_out, c2)
    ELSE
      LET amount_unit == from_sats(amount_msat \div 1000, u)
          c3 == Append(c2, Call("from_sats", u, fees_msat \div 1000, e.fx_fee_out))
      IN
      IF e.fx_fee_out # "ok" THEN Raise(e.fx_fee_out, c3)
      ELSE
        LET fees_unit == from_sats(fees_msat \div 1000, u) IN
        Return(PaymentQuoteResponse(e.payment_hash,
                                    amount_to(Amount(u, fees_unit), u, "up"),
                                    amount_to(Amount(u, amount_unit), u, "up")), c3)

get_payment_quote_run(u, e) ==
    LET c1 == <<Call("decode", None, 0, e.decode_out)>> IN
    IF e.decode_out # "ok" THEN Raise("DecodeError", c1)
    ELSE IF ~quote_assert(e) THEN Raise("AssertionError", c1)
    ELSE IF quote_use_mpp(e)
    THEN
      LET c2 == Append(c1, Call("Amount.to", e.mpp_unit, e.mpp_amount, e.conv_out)) IN
      IF e.conv_out # "ok" THEN Raise(e.conv_out, c2)
      ELSE quote_convert(u, e,
                         amount_to(Amount(e.mpp_unit, e.mpp_amount), "msat", None).amount,
                         c2)
    ELSE quote_convert(u, e, e.amount_msat, c1)

get_payment_quote ==
    /\ op = "idle"
    /\ \E e \in QuoteEnvs :
         LET r == get_payment_quote_run(unit, e) IN
           /\ op' = "get_payment_quote"
           /\ env' = e
           /\ calls' = r.calls
           /\ result' = r.ret
           /\ UNCHANGED unit

\* ---------------------------------------------------------- specification
\* the caller takes the result; nothing of the call stays in the adapter
consume_result ==
    /\ op # "idle"
    /\ op' = "idle"
    /\ env' = [none |-> TRUE]
    /\ calls' = <<>>
    /\ result' = [raised |-> None]
    /\ UNCHANGED unit

Init ==
    /\ unit \in supported_units
    /\ op = "idle"
    /\ env = [none |-> TRUE]
    /\ calls = <<>>
    /\ result = [raised |-> None]

Next ==
    \/ status
    \/ create_invoice
    \/ pay_invoice
    \/ get_invoice_status
    \/ get_payment_status
    \/ get_payment_quote
    \/ consume_result

Spec == Init /\ [][Next]_vars

\* ------------------------------------------------------------ properties
AdapterOps ==
    {"status", "create_invoice", "pay_invoice", "get_invoice_status",
     "get_payment_status"}

ClientFns ==
    {"get_info", "get_balance", "create_invoice", "pay_invoice", "lookup_invoice"}

RateFns == {"from_sats", "to_sats"}

RequiredMethods ==
    {"get_info", "get_balance", "make_invoice", "pay_invoice", "lookup_invoice"}

SomeCallFailed == \E i \in DOMAIN calls : calls[i].out # "ok"

\* the millisatoshi amount a quote is about: the override if there is one
ChosenMsat ==
    IF env.is_mpp
    THEN (IF env.mpp_unit = "msat" THEN env.mpp_amount ELSE env.mpp_amount * 1000)
    ELSE env.amount_msat

\* the decoded invoice carries an amount
AmountPresent == env.has_amount /\ env.amount_msat # 0

\* C1: whenever the client's pay_invoice call succeeds, the adapter's
\* pay_invoice returns ok=true with a non-empty preimage, whatever happens in
\* the steps after the payment (fee lookup, fee conversion).
C1_PaidImpliesOk ==
    (op = "pay_invoice" /\ env.pay_out = "ok")
        => (result.ok /\ result.preimage \notin {None, ""})

\* C2: status() never succeeds when get_info reports a method set that omits
\* a required method: it returns balance 0 with an error and calls neither
\* get_balance nor the rate provider; get_balance is only ever called after a
\* get_info that returned a superset of the required methods.
C2_CapabilityCheckPrecedesBalance ==
    /\ (op = "status" /\ env.info_out = "ok" /\ ~(RequiredMethods \subseteq env.methods))
          => /\ result.error_message # None
             /\ result.balance = 0
             /\ \A i \in DOMAIN calls : calls[i].fn \notin ({"get_balance"} \cup RateFns)
    /\ \A i \in DOMAIN calls :
          calls[i].fn = "get_balance"
            => /\ op = "status"
               /\ RequiredMethods \subseteq env.methods
               /\ \E j \in 1..(i - 1) : calls[j].fn = "get_info" /\ calls[j].out = "ok"

C2_Witness ==
    /\ op = "status"
    /\ env.info_out = "ok"
    /\ env.methods = RequiredMethods \ {"pay_invoice"}
    /\ env.bal_out = "ok"
    /\ result.balance = 0
    /\ result.error_message # None
    /\ Len(calls) = 1

\* C3: status, create_invoice, pay_invoice, get_invoice_status and
\* get_payment_status never raise, whatever mix of success, protocol error and
\* generic failure their collaborators show; a failed primary step gives the
\* operation's failure value.
C3_OperationsTotal ==
    (op \in AdapterOps) =>
      /\ result.raised = None
      /\ (op = "status" /\ SomeCallFailed)
            => (result.balance = 0 /\ result.error_message # None)
      /\ (op = "create_invoice" /\ SomeCallFailed)
            => (~result.ok /\ result.error_message # None)
      /\ (op = "pay_invoice" /\ env.pay_out # "ok")
            => (~result.ok /\ result.error_message # None)
      /\ (op \in {"get_invoice_status", "get_payment_status"} /\ env.lookup_out # "ok")
            => ~result.paid

C3_Witness ==
    /\ op = "status"
    /\ env.info_out = "ok"
    /\ RequiredMethods \subseteq env.methods
    /\ env.bal_out = "Exception"
    /\ result.raised = None
    /\ result.balance = 0
    /\ result.error_message # None

\* C4: get_payment_quote never quotes less than the true obligation: the
\* quoted amount and fee are at least the ceiling of the millisatoshi value
\* converted into the adapter's unit.
C4_QuoteRoundsUp ==
    (op = "get_payment_quote" /\ result.raised = None)
        => /\ result.amount.amount >= CeilDiv(ChosenMsat, 1000 * SatsPer(unit))
           /\ result.fee.amount >= CeilDiv(env.fee_reserve_ret, 1000 * SatsPer(unit))

\* C5: get_invoice_status and get_payment_status make the same single
\* lookup_invoice call by checking id, and report paid exactly when the lookup
\* succeeded with a preimage that is present and non-empty.
C5_StatusLookupsAgree ==
    (op \in {"get_invoice_status", "get_payment_status"}) =>
      /\ calls = <<Call("lookup_invoice", env.checking_id, 0, env.lookup_out)>>
      /\ result.paid = (env.lookup_out = "ok" /\ env.preimage \notin {None, ""})

C5_Witness ==
    /\ op = "get_payment_status"
    /\ env.lookup_out = "ok"
    /\ env.preimage = ""
    /\ ~result.paid

\* C6: create_invoice converts the amount to satoshis first, then asks the
\* client for an invoice of exactly amount_sat * 1000 msat; both steps
\* succeeding gives ok=true with the client's payment hash and invoice string;
\* a failing step gives ok=false with both absent, and a failed conversion
\* means the client is never asked.
C6_CreateInvoice ==
    (op = "create_invoice") =>
      /\ calls[1] = Call("to_sats", unit, env.amount, env.fx_out)
      /\ (env.fx_out # "ok") => Len(calls) = 1
      /\ (env.fx_out = "ok")
            => /\ Len(calls) = 2
               /\ calls[2] = Call("create_invoice", None,
                                  to_sats(env.amount, unit) * 1000, env.make_out)
      /\ (env.fx_out = "ok" /\ env.make_out = "ok")
            => /\ result.ok
               /\ result.checking_id = env.payment_hash
               /\ result.payment_request = env.invoice
      /\ (env.fx_out # "ok" \/ env.make_out # "ok")
            => /\ ~result.ok
               /\ result.checking_id = None
               /\ result.payment_request = None

C6_Witness ==
    /\ op = "create_invoice"
    /\ unit = "sat"
    /\ env.amount = 2
    /\ result.ok
    /\ result.checking_id = "h2"
    /\ calls[2].narg = 2000

C8_FeeReconciliation ==
    (op = "pay_invoice" /\ result.ok) =>
      LET fee_sat == IF env.lookup_out = "ok" THEN env.fees_paid \div 1000 ELSE 0 IN
      /\ calls[2] = Call("lookup_invoice", env.checking_id, 0, env.lookup_out)
      /\ (fee_sat = 0)
            => /\ result.fee.amount = 0
               /\ \A i \in DOMAIN calls : calls[i].fn \notin RateFns
      /\ (fee_sat # 0)
            => /\ result.fee.amount = from_sats(fee_sat, unit)
               /\ Len(calls) = 3
               /\ calls[3] = Call("from_sats", unit, fee_sat, "ok")
      /\ result.fee.unit = unit
      /\ result.preimage = env.pay_preimage
      /\ result.checking_id = None

C8_Witness ==
    /\ op = "pay_invoice"
    /\ unit = "sat"
    /\ result.ok
    /\ env.lookup_out = "ok"
    /\ env.fees_paid = 1500
    /\ result.fee = Amount("sat", 1)
    /\ result.preimage = "p2"

\* C9: nothing is retried: within one call each client method is invoked at
\* most once, pay_invoice invokes the client's pay_invoice exactly once and
\* lookup_invoice only after the payment succeeded, and after a failed
\* collaborator call the operation makes no further collaborator call.
C9_NoRetries ==
    /\ \A i, j \in DOMAIN calls :
          (i < j /\ calls[i].fn = calls[j].fn) => calls[i].fn \notin ClientFns
    /\ (op = "pay_invoice")
          => /\ Cardinality({i \in DOMAIN calls : calls[i].fn = "pay_invoice"}) = 1
             /\ \A i \in DOMAIN calls :
                   calls[i].fn = "lookup_invoice"
                     => \E j \in 1..(i - 1) :
                           calls[j].fn = "pay_invoice" /\ calls[j].out = "ok"
    /\ \A i \in DOMAIN calls : calls[i].out # "ok" => i = Len(calls)

C9_Witness ==
    /\ op = "pay_invoice"
    /\ env.pay_out = "ok"
    /\ env.lookup_out = "Nip47Error"
    /\ Len(calls) = 2
    /\ result.ok

====
